---- MODULE Spec2Model ----
(***************************************************************************)
(* Model of porespy/metrics/__funcs__.py: the chord generators             *)
(* (apply_chords, apply_chords_3D), the boundary trimming they share, the  *)
(* chord length analyser (chord_length_distribution) and the brute-force   *)
(* two-point correlation (two_point_correlation_bf).                       *)
(*                                                                         *)
(* An N-dimensional array is a record [shape |-> <<d0,...>>, val |-> f],   *)
(* f a function from the 0-based index tuples of that shape to naturals    *)
(* (a boolean array holds 0 and 1).  A call that raises yields a record    *)
(* [err |-> <exception>, at |-> <the statement that raised>].              *)
(***************************************************************************)
EXTENDS Integers, Sequences, FiniteSets, TLC

VARIABLES im, fn, spacing, axis, trim_edges, pc, out, prev, ntrim, lens

vars == <<im, fn, spacing, axis, trim_edges, pc, out, prev, ntrim, lens>>

(***************************************************************************)
(* Bounds of the model.                                                    *)
(***************************************************************************)
\* Largest `spacing` argument tried (the smallest tried is -1).
MaxSpacing == 1
\* Number of voxels of a base image that an input may have inverted.
MaxFlips == 1

(***************************************************************************)
(* Arrays.                                                                 *)
(***************************************************************************)
Coords(shape) ==
    CASE Len(shape) = 0 -> {<<>>}
      [] Len(shape) = 1 -> {<<a>> : a \in 0..(shape[1]-1)}
      [] Len(shape) = 2 -> (0..(shape[1]-1)) \X (0..(shape[2]-1))
      [] Len(shape) = 3 -> (0..(shape[1]-1)) \X (0..(shape[2]-1)) \X (0..(shape[3]-1))
      [] Len(shape) = 4 -> (0..(shape[1]-1)) \X (0..(shape[2]-1)) \X (0..(shape[3]-1))
                              \X (0..(shape[4]-1))

\* f itself, held as an explicit table of its values (f @@ <<>> equals f).
Table(f) == f @@ <<>>

IsError(r) == "err" \in DOMAIN r

Raise(e, where) == [err |-> e, at |-> where]

\* The voxels of `a` that are not zero.
Support(a) == {c \in DOMAIN a.val : a.val[c] > 0}

(***************************************************************************)
(* numpy: indexing, moveaxis, atleast_3d, squeeze, element-wise products.  *)
(***************************************************************************)
\* IndexOK with negative indexes refused.
IndexOKNoNegative(i, n) == 0 <= i /\ i < n

\* A Python index i is accepted by a sequence of length n iff -n <= i < n.
IndexOK(i, n) == -n <= i /\ i < n

\* A negative Python index counts from the end.
NormIndex(i, n) == IF i < 0 THEN i + n ELSE i

\* sp.arange(0, n), as the sequence <<0, ..., n-1>>.
arange(n) == [i \in 1..n |-> i - 1]

\* dims2 = copy(dims1); dims2[axis] = 0; dims2[0] = axis   (axis accepted).
SwapDims(n, ax) ==
    LET d1 == arange(n)
        d2 == [d1 EXCEPT ![NormIndex(ax, n) + 1] = 0]
    IN  [d2 EXCEPT ![1] = ax]

\* sp.moveaxis(a, source, destination) with one destination per source axis.
\* Axis source[i] of `a` becomes axis destination[i] of the result; an axis
\* outside [-ndim, ndim) or a repeated axis raises.
moveaxis(a, source, destination) ==
    LET n   == Len(a.shape)
        src == [i \in DOMAIN source |-> NormIndex(source[i], n)]
        dst == [i \in DOMAIN destination |-> NormIndex(destination[i], n)]
    IN  IF \E i \in DOMAIN source : ~IndexOK(source[i], n)
        THEN Raise("AxisError", "moveaxis source")
        ELSE IF \E i \in DOMAIN destination : ~IndexOK(destination[i], n)
        THEN Raise("AxisError", "moveaxis destination")
        ELSE IF \E i, j \in DOMAIN src : i # j /\ (src[i] = src[j] \/ dst[i] = dst[j])
        THEN Raise("ValueError", "moveaxis repeated axis")
        ELSE LET destOf(s) == dst[CHOOSE i \in DOMAIN src : src[i] = s - 1] + 1
                 srcOf(d)  == src[CHOOSE i \in DOMAIN dst : dst[i] = d - 1] + 1
                 shape2    == [d \in 1..n |-> a.shape[srcOf(d)]]
             IN  [shape |-> shape2,
                  val   |-> Table([c \in Coords(shape2) |->
                                a.val[[s \in 1..n |-> c[destOf(s)]]]])]

\* sp.atleast_3d: (M, N) becomes (M, N, 1); three or more dimensions are kept.
atleast_3d(a) ==
    IF Len(a.shape) = 2
    THEN LET shape3 == Append(a.shape, 1)
         IN  [shape |-> shape3,
              val   |-> Table([c \in Coords(shape3) |-> a.val[<<c[1], c[2]>>]])]
    ELSE a

\* The positions of `shape`, from position i on, whose length is not 1.
RECURSIVE KeptAxes(_, _)
KeptAxes(shape, i) ==
    IF i > Len(shape) THEN <<>>
    ELSE IF shape[i] = 1 THEN KeptAxes(shape, i + 1)
    ELSE <<i>> \o KeptAxes(shape, i + 1)

\* sp.squeeze: every axis of length 1 is removed, not only a trailing one.
squeeze(a) ==
    LET kept   == KeptAxes(a.shape, 1)
        shape2 == [k \in DOMAIN kept |-> a.shape[kept[k]]]
        full(c) == [i \in 1..Len(a.shape) |->
                      IF a.shape[i] = 1 THEN 0
                      ELSE c[CHOOSE k \in DOMAIN kept : kept[k] = i]]
    IN  [shape |-> shape2, val |-> Table([c \in Coords(shape2) |-> a.val[full(c)]])]

\* a * b for two arrays of one shape.
Mul(a, b) == [shape |-> a.shape, val |-> Table([c \in DOMAIN a.val |-> a.val[c] * b.val[c]])]

\* a == 1, a > 0 : boolean arrays.
Eq1(a) == [shape |-> a.shape, val |-> Table([c \in DOMAIN a.val |-> IF a.val[c] = 1 THEN 1 ELSE 0])]
Gt0(a) == [shape |-> a.shape, val |-> Table([c \in DOMAIN a.val |-> IF a.val[c] > 0 THEN 1 ELSE 0])]

(***************************************************************************)
(* scipy.ndimage.label and skimage.segmentation.clear_border.              *)
(***************************************************************************)
Abs(x) == IF x < 0 THEN -x ELSE x

\* Neighbours across a face (the default structure of spim.label).
FaceAdj(c, d) ==
    \E i \in DOMAIN c : /\ Abs(c[i] - d[i]) = 1
                        /\ \A j \in DOMAIN c : j # i => c[j] = d[j]

\* Neighbours across a face, an edge or a corner (skimage's label default).
FullAdj(c, d) == c # d /\ \A i \in DOMAIN c : Abs(c[i] - d[i]) <= 1

\* C (raster) order of index tuples.
LexLess(c, d) ==
    \E i \in DOMAIN c : c[i] < d[i] /\ \A j \in 1..(i-1) : c[j] = d[j]

\* The face-connected component of S reached from `front`.
RECURSIVE FloodFace(_, _, _)
FloodFace(seen, front, S) ==
    LET new == {u \in S \ seen : \E v \in front : FaceAdj(u, v)}
    IN  IF new = {} THEN seen ELSE FloodFace(seen \cup new, new, S)

RECURSIVE FloodFull(_, _, _)
FloodFull(seen, front, S) ==
    LET new == {u \in S \ seen : \E v \in front : FullAdj(u, v)}
    IN  IF new = {} THEN seen ELSE FloodFull(seen \cup new, new, S)

\* The face-connected components of S, in raster order of their first voxel.
RECURSIVE LabelComps(_)
LabelComps(S) ==
    IF S = {} THEN <<>>
    ELSE LET first == CHOOSE c \in S : \A d \in S \ {c} : LexLess(c, d)
             comp  == FloodFace({first}, {first}, S)
         IN  <<comp>> \o LabelComps(S \ comp)

\* spim.label(a): (labels, N), the non-zero voxels of `a` numbered 1..N by component.
label(a) ==
    LET comps == LabelComps(Support(a))
    IN  [labels |-> [shape |-> a.shape,
                     val   |-> Table([c \in DOMAIN a.val |->
                                  IF a.val[c] > 0
                                  THEN CHOOSE k \in DOMAIN comps : c \in comps[k]
                                  ELSE 0])],
         N |-> Len(comps)]

\* The voxels on a face of the array.
Border(shape) ==
    {c \in Coords(shape) : \E i \in DOMAIN shape : c[i] = 0 \/ c[i] = shape[i] - 1}

\* clear_border(labels): the image is labelled again (equal neighbouring values,
\* full connectivity) and every region holding a border voxel is set to 0.
clear_border(labels) ==
    LET sup == Support(labels)
        region(b) == FloodFull({b}, {b}, {c \in sup : labels.val[c] = labels.val[b]})
        cleared == UNION {region(b) : b \in Border(labels.shape) \cap sup}
    IN  [shape |-> labels.shape,
         val   |-> Table([c \in DOMAIN labels.val |->
                      IF c \in cleared THEN 0 ELSE labels.val[c]])]

(***************************************************************************)
(* apply_chords.                                                           *)
(***************************************************************************)
\* ch = zeros_like(im); ch[:, ::4+2*spacing, ::4+2*spacing] = 1
ChordGrid(shape, sp) ==
    LET stride == 4 + 2 * sp
    IN  [shape |-> shape,
         val   |-> Table([c \in Coords(shape) |->
                      IF c[2] % stride = 0 /\ c[3] % stride = 0 THEN 1 ELSE 0])]

\* a > 1.
Gt1(a) == [shape |-> a.shape, val |-> Table([c \in DOMAIN a.val |-> IF a.val[c] > 1 THEN 1 ELSE 0])]

\* TrimEdges with the surviving labels tested by "> 1" instead of "> 0".
TrimEdgesGt1(chords) == Mul(Gt1(clear_border(label(Eq1(chords)).labels)), chords)

\* temp = clear_border(spim.label(chords == 1)[0]) > 0 ; chords = temp*chords
TrimEdges(chords) == Mul(Gt0(clear_border(label(Eq1(chords)).labels)), chords)

apply_chords(a, sp, ax, te) ==
    IF sp < 0 THEN Raise("Exception", "Spacing cannot be less than 0")
    ELSE IF ~IndexOK(ax, Len(a.shape)) THEN Raise("IndexError", "dims2[axis] = 0")
    ELSE LET dims1 == arange(Len(a.shape))
             dims2 == SwapDims(Len(a.shape), ax)
             moved == moveaxis(a, dims1, dims2)
         IN  IF IsError(moved) THEN moved
             ELSE LET im3     == atleast_3d(moved)
                      ch      == ChordGrid(im3.shape, sp)
                      chords  == squeeze(Mul(im3, ch))
                      trimmed == IF te THEN TrimEdges(chords) ELSE chords
                  IN  moveaxis(trimmed, dims1, dims2)

(***************************************************************************)
(* apply_chords_3D.                                                        *)
(***************************************************************************)
\* ch[:, ::stride, ::stride] = 1          X-direction
InX(c, stride) == c[2] % stride = 0 /\ c[3] % stride = 0

\* InY without its offset of 2 along the last axis: ch[::stride, :, ::stride] = 2.
InYNoOffset(c, stride) == c[1] % stride = 0 /\ c[3] % stride = 0

\* ch[::stride, :, 2::stride] = 2         Y-direction
InY(c, stride) == c[1] % stride = 0 /\ c[3] >= 2 /\ (c[3] - 2) % stride = 0

\* ch[2::stride, 2::stride, :] = 3        Z-direction
InZ(c, stride) ==
    /\ c[1] >= 2 /\ (c[1] - 2) % stride = 0
    /\ c[2] >= 2 /\ (c[2] - 2) % stride = 0

\* The three assignments in their order: a later one overwrites an earlier one.
ChordGrid3D(shape, sp) ==
    LET stride == 4 + 2 * sp
    IN  [shape |-> shape,
         val   |-> Table([c \in Coords(shape) |->
                      IF InZ(c, stride) THEN 3
                      ELSE IF InY(c, stride) THEN 2
                      ELSE IF InX(c, stride) THEN 1
                      ELSE 0])]

\* temp = clear_border(spim.label(chords > 0)[0]) > 0 ; chords = temp*chords
TrimEdges3D(chords) == Mul(Gt0(clear_border(label(Gt0(chords)).labels)), chords)

apply_chords_3D(a, sp, te) ==
    IF Len(a.shape) < 3 THEN Raise("Exception", "Must be a 3D image to use this function")
    ELSE IF sp < 0 THEN Raise("Exception", "Spacing cannot be less than 0")
    ELSE LET chords == Mul(ChordGrid3D(a.shape, sp), a)
         IN  IF te THEN TrimEdges3D(chords) ELSE chords

(***************************************************************************)
(* chord_length_distribution.                                              *)
(***************************************************************************)
\* item.stop - item.start of a component's bounding box along axis i.
Extent(comp, i) ==
    LET hi == CHOOSE x \in {c[i] : c \in comp} : \A y \in {c[i] : c \in comp} : y <= x
        lo == CHOOSE x \in {c[i] : c \in comp} : \A y \in {c[i] : c \in comp} : x <= y
    IN  hi - lo + 1

\* LongestSide with sp.amin in the place of sp.amax.
ShortestSide(comp, n) ==
    CHOOSE x \in {Extent(comp, i) : i \in 1..n} :
        \A y \in {Extent(comp, i) : i \in 1..n} : x <= y

\* sp.amax([item.stop - item.start for item in s])
LongestSide(comp, n) ==
    CHOOSE x \in {Extent(comp, i) : i \in 1..n} :
        \A y \in {Extent(comp, i) : i \in 1..n} : y <= x

\* One length per labelled component, in label order.
chord_length_distribution(a) ==
    LET comps == LabelComps(Support(a))
    IN  [i \in 1..Len(comps) |-> LongestSide(comps[i], Len(a.shape))]

(***************************************************************************)
(* two_point_correlation_bf.                                               *)
(***************************************************************************)
\* The default of the `spacing` parameter.
DefaultSpacing == 10

\* list(range(0, stop, step)) as a sequence; a zero step is refused before.
RangeSeq(stop, step) ==
    IF step < 0 \/ stop <= 0 THEN <<>>
    ELSE [k \in 1..((stop + step - 1) \div step) |-> (k - 1) * step]

\* The points of the meshgrid over range(0, shape[i], spacing), i.e. crds.
SamplePoints(shape, sp) ==
    IF sp < 0 THEN {}
    ELSE {c \in Coords(shape) : \A i \in DOMAIN shape : c[i] % sp = 0}

\* sp.amin(im.shape)
MinSide(shape) ==
    CHOOSE x \in {shape[i] : i \in DOMAIN shape} :
        \A i \in DOMAIN shape : x <= shape[i]

\* The square of the Euclidean distance cdist gives for the pair (p, q).
Dist2(p, q) ==
    LET sq(i) == (p[i] - q[i]) * (p[i] - q[i])
    IN  IF Len(p) = 2 THEN sq(1) + sq(2) ELSE sq(1) + sq(2) + sq(3)

\* Bin i of np.histogram over `edges` holds the distance d, given by its
\* square: [edges[i], edges[i+1]), and the last bin is closed on the right.
InBin(d2, edges, i) ==
    /\ edges[i] * edges[i] <= d2
    /\ IF i = Len(edges) - 1
       THEN d2 <= edges[i+1] * edges[i+1]
       ELSE d2 < edges[i+1] * edges[i+1]

\* sp.histogram(dmat, bins=edges)[0] over the pairs of `pairs`.
Histogram(pairs, edges) ==
    [i \in 1..(Len(edges) - 1) |->
        Cardinality({pq \in pairs : InBin(Dist2(pq[1], pq[2]), edges, i)})]

\* SecondFilter that also drops the pairs of a point with itself.
SecondFilterDropsSelfPairs(pairs, hit) ==
    {pq \in pairs : pq[2] \in hit /\ pq[1] # pq[2]}

\* dmat = dmat[:, hits] : the pairs whose second point is void as well.
SecondFilter(pairs, hit) == {pq \in pairs : pq[2] \in hit}

\* What a call can return or raise.  The result is (x, y): x the left bin
\* edges, y[i] the quotient h2[i] / h1[i] kept as [num, den] (0/0 is nan).
\* Two cases depend on the numpy at hand, and both outcomes are kept: a
\* negative spacing gives an empty meshgrid, which im[pts] accepts or
\* refuses as an index; an empty edge array (the shortest side is 1) is
\* accepted by sp.histogram or, with distances to count, refused.
two_point_correlation_bf(a, sp) ==
    IF Len(a.shape) \notin {2, 3}
    THEN {Raise("UnboundLocalError", "crds")}
    ELSE IF sp = 0
    THEN {Raise("ValueError", "range() arg 3 must not be zero")}
    ELSE LET pts   == SamplePoints(a.shape, sp)
             hit   == {p \in pts : a.val[p] > 0}
             edges == RangeSeq(MinSide(a.shape) \div 2, sp)
             rows  == hit \X pts
             h1    == Histogram(rows, edges)
             h2    == Histogram(SecondFilter(rows, hit), edges)
             res   == [x |-> SubSeq(edges, 1, Len(edges) - 1),
                       y |-> [i \in DOMAIN h1 |-> [num |-> h2[i], den |-> h1[i]]]]
         IN  IF pts = {}
             THEN {res, Raise("IndexError", "im[pts]")}
             ELSE IF edges = <<>> /\ hit # {}
             THEN {res, Raise("IndexError", "histogram")}
             ELSE {res}

(***************************************************************************)
(* Input images: a base image with at most MaxFlips voxels inverted.       *)
(***************************************************************************)
RECURSIVE SubsetsUpTo(_, _)
SubsetsUpTo(S, k) ==
    IF k = 0 THEN {{}}
    ELSE LET smaller == SubsetsUpTo(S, k - 1)
         IN  smaller \cup {F \cup {x} : F \in smaller, x \in S}

AllVoid(shape)  == [shape |-> shape, val |-> Table([c \in Coords(shape) |-> 1])]
AllSolid(shape) == [shape |-> shape, val |-> Table([c \in Coords(shape) |-> 0])]
\* A closed pore: void inside, solid on every face.
Shell(shape) ==
    [shape |-> shape,
     val   |-> Table([c \in Coords(shape) |-> IF c \in Border(shape) THEN 0 ELSE 1])]

Flip(a, F) ==
    [shape |-> a.shape, val |-> Table([c \in DOMAIN a.val |-> IF c \in F THEN 1 - a.val[c] ELSE a.val[c]])]

\* A straight run of L void voxels along axis ax starting at voxel c0, alone
\* in a solid image.
RunImage(shape, ax, c0, L) ==
    [shape |-> shape,
     val   |-> Table([c \in Coords(shape) |->
                  IF /\ c[ax] >= c0[ax] /\ c[ax] < c0[ax] + L
                     /\ \A j \in DOMAIN shape : j # ax => c[j] = c0[j]
                  THEN 1 ELSE 0])]

RunImages(shape) ==
    {RunImage(shape, ax, c0, L) :
        ax \in DOMAIN shape, c0 \in Coords(shape), L \in 1..Len(shape) + 2} 

Images2D(shape) ==
    {Flip(b, F) : b \in {AllVoid(shape), AllSolid(shape), Shell(shape)},
                  F \in SubsetsUpTo(Coords(shape), MaxFlips)}

\* Three-dimensional images are larger: one voxel fewer is inverted, in Shell only.
Images3D(shape) ==
    {AllVoid(shape), AllSolid(shape)}
        \cup {Flip(Shell(shape), F) : F \in SubsetsUpTo(Coords(shape), MaxFlips - 1)}

\* The 10 x 10 fully void grid of the specification's scenario.
ScenarioGrid == AllVoid(<<10, 10>>)

\* Images on which every argument value is tried, the rejected ones included.
ArgImages == {Shell(<<6, 6>>), AllVoid(<<1, 5>>), Shell(<<4, 6, 6>>)}

\* Cubes in which chords of all three directions keep clear of the faces.
Cubes == {AllVoid(<<6, 6, 6>>), Shell(<<6, 6, 6>>)}

\* Images of 4 dimensions (apply_chords_3D only).
Images4D == {AllVoid(<<3, 3, 3, 2>>), Shell(<<3, 3, 3, 2>>)}

ChordImages ==
    Images2D(<<6, 6>>) \cup Images2D(<<1, 5>>) \cup Images2D(<<5, 1>>)
        \cup Images3D(<<4, 6, 6>>) \cup Images3D(<<2, 1, 5>>)
        \cup RunImages(<<3, 4>>) \cup RunImages(<<2, 3, 3>>)
        \cup {ScenarioGrid} \cup ArgImages \cup Cubes \cup Images4D

Spacings == (-1)..MaxSpacing
Axes == (-4)..3

\* The arguments tried on image a: <<spacing, axis, trim_edges>>.
CallArgs(a) ==
    ((0..MaxSpacing) \X (0..(Len(a.shape) - 1)) \X BOOLEAN)
        \cup (IF a \in ArgImages THEN Spacings \X Axes \X BOOLEAN ELSE {})

NoArray == [shape |-> <<0>>, val |-> <<>>]

(***************************************************************************)
(* The chord pipeline: a chord generator, trimming again, chord lengths.   *)
(***************************************************************************)
Init ==
    /\ im \in ChordImages
    /\ fn = "none" /\ spacing = 0 /\ axis = 0 /\ trim_edges = FALSE
    /\ pc = "start"
    /\ out = NoArray /\ prev = NoArray /\ ntrim = 0 /\ lens = <<>>

ApplyChords ==
    /\ pc = "start" /\ Len(im.shape) \in {2, 3}
    /\ \E args \in CallArgs(im) :
          /\ spacing' = args[1] /\ axis' = args[2] /\ trim_edges' = args[3]
          /\ out' = apply_chords(im, args[1], args[2], args[3])
          /\ ntrim' = IF args[3] THEN 1 ELSE 0
    /\ fn' = "apply_chords"
    /\ pc' = "chords"
    /\ UNCHANGED <<im, prev, lens>>

ApplyChords3D ==
    /\ pc = "start"
    /\ \E sp \in Spacings, te \in BOOLEAN :
          /\ spacing' = sp /\ trim_edges' = te
          /\ out' = apply_chords_3D(im, sp, te)
          /\ ntrim' = IF te THEN 1 ELSE 0
    /\ fn' = "apply_chords_3D"
    /\ pc' = "chords"
    /\ UNCHANGED <<im, axis, prev, lens>>

\* The trimming step of the generator that made `out`, applied to its
\* already trimmed result.
TrimAgain ==
    /\ pc = "chords" /\ ~IsError(out) /\ ntrim = 1
    /\ prev' = out
    /\ out' = IF fn = "apply_chords" THEN TrimEdges(out) ELSE TrimEdges3D(out)
    /\ ntrim' = ntrim + 1
    /\ UNCHANGED <<im, fn, spacing, axis, trim_edges, pc, lens>>

\* chord_length_distribution of the chord image just made.
ChordLengths ==
    /\ pc = "chords" /\ ~IsError(out) /\ ntrim < 2
    /\ lens' = chord_length_distribution(out)
    /\ pc' = "lengths"
    /\ UNCHANGED <<im, fn, spacing, axis, trim_edges, out, prev, ntrim>>

\* chord_length_distribution of the input image itself.
MeasureImage ==
    /\ pc = "start"
    /\ lens' = chord_length_distribution(im)
    /\ pc' = "measured"
    /\ UNCHANGED <<im, fn, spacing, axis, trim_edges, out, prev, ntrim>>

Next == ApplyChords \/ ApplyChords3D \/ TrimAgain \/ ChordLengths \/ MeasureImage

Spec == Init /\ [][Next]_vars

(***************************************************************************)
(* Reference descriptions used by the properties below; none of them is    *)
(* used by the model of the code.                                          *)
(***************************************************************************)
ValidAxis == axis \in 0..(Len(im.shape) - 1)

\* The call of apply_chords that C1, C2 and C10 speak of has returned.
ChordsCalled == fn = "apply_chords" /\ spacing >= 0 /\ ValidAxis

\* Void voxels whose coordinates off the probe axis are multiples of the stride.
OnChord(c) ==
    /\ im.val[c] > 0
    /\ \A j \in DOMAIN im.shape : j # axis + 1 => c[j] % (4 + 2 * spacing) = 0

ChordVoxels == {c \in Coords(im.shape) : OnChord(c)}

\* Chord voxels whose face-connected component of chord voxels touches no face.
InteriorChordVoxels ==
    {c \in ChordVoxels :
        FloodFace({c}, {c}, ChordVoxels) \cap Border(im.shape) = {}}

IsMask(r, S) ==
    /\ ~IsError(r)
    /\ r.shape = im.shape
    /\ \A c \in Coords(im.shape) : r.val[c] = IF c \in S THEN 1 ELSE 0

NoUnitAxis == \A i \in DOMAIN im.shape : im.shape[i] > 1

\* C1: with trim_edges = False, apply_chords returns the mask that is set
\* exactly at the void voxels whose coordinates on every axis other than
\* `axis` are multiples of 4 + 2*spacing; the fully void 10 x 10 grid with
\* spacing 0 and axis 0 gets exactly 30 marked voxels, in columns 0, 4, 8.
C1_UntrimmedMask ==
    (ChordsCalled /\ ntrim = 0) =>
        /\ IsMask(out, ChordVoxels)
        /\ (im = ScenarioGrid /\ spacing = 0 /\ axis = 0) =>
              /\ Cardinality(Support(out)) = 30
              /\ Support(out) = {c \in Coords(im.shape) : c[2] \in {0, 4, 8}}

\* C1 on the images that have no axis of length 1.
UntrimmedMaskNoUnitAxis == NoUnitAxis => C1_UntrimmedMask

\* C2: with trim_edges = True, apply_chords returns exactly the voxels of
\* the untrimmed chord mask whose face-connected component touches no face
\* of the grid; on the fully void 10 x 10 grid the result is empty.
C2_TrimmedMask ==
    (ChordsCalled /\ ntrim = 1) =>
        /\ IsMask(out, InteriorChordVoxels)
        /\ (im = ScenarioGrid /\ spacing = 0 /\ axis = 0) => Support(out) = {}

\* C2 on the images that have no axis of length 1.
TrimmedMaskNoUnitAxis == NoUnitAxis => C2_TrimmedMask

\* C10: for every 2D or 3D shape, axes of length 1 included, every valid
\* axis and both values of trim_edges, apply_chords returns an array of the
\* shape of its input.
C10_SameShape ==
    (ChordsCalled /\ pc # "start") => (~IsError(out) /\ out.shape = im.shape)

\* C10 on the images that have no axis of length 1.
SameShapeNoUnitAxis == NoUnitAxis => C10_SameShape

\* The void run of the input that starts at chord voxel c and follows the
\* probe axis: c is its first voxel, and its length.
StartsRun(c) ==
    /\ c \in ChordVoxels
    /\ c[axis + 1] = 0 \/ im.val[[c EXCEPT ![axis + 1] = @ - 1]] = 0

RECURSIVE RunLength(_)
RunLength(c) ==
    IF c[axis + 1] + 1 < im.shape[axis + 1] /\ im.val[[c EXCEPT ![axis + 1] = @ + 1]] > 0
    THEN 1 + RunLength([c EXCEPT ![axis + 1] = @ + 1])
    ELSE 1

\* A run keeps clear of every face of the grid.
RunInside(c) ==
    /\ \A j \in DOMAIN im.shape : j # axis + 1 => (c[j] > 0 /\ c[j] < im.shape[j] - 1)
    /\ c[axis + 1] > 0
    /\ c[axis + 1] + RunLength(c) < im.shape[axis + 1]

\* How often the length L occurs in a sequence of lengths.
Count(seq, L) == Cardinality({i \in DOMAIN seq : seq[i] = L})

\* The non-zero voxels of the input form one straight run along axis ax.
StraightRun(ax) ==
    LET S == Support(im)
    IN  /\ S # {}
        /\ \A c, d \in S : \A j \in DOMAIN im.shape : j # ax => c[j] = d[j]
        /\ \A c, d \in S : \A k \in c[ax]..d[ax] : [c EXCEPT ![ax] = k] \in S

\* C3: chord_length_distribution yields [L] for an image holding one
\* straight run of L void voxels and the empty sequence for an image with
\* no chord voxel; the lengths measured on an apply_chords mask are the
\* lengths of the maximal void runs along the probe axis at the sampled
\* positions (of those clear of the faces when the mask was trimmed).
C3_ChordLengths ==
    /\ pc = "measured" =>
          /\ Support(im) = {} => lens = <<>>
          /\ \A ax \in DOMAIN im.shape :
                StraightRun(ax) => lens = <<Cardinality(Support(im))>>
    /\ (pc = "lengths" /\ ChordsCalled) =>
          /\ \A i \in DOMAIN lens : lens[i] \in 1..im.shape[axis + 1]
          /\ \A L \in 1..im.shape[axis + 1] :
                Count(lens, L) =
                    Cardinality({c \in ChordVoxels :
                                    /\ StartsRun(c)
                                    /\ RunLength(c) = L
                                    /\ ntrim = 1 => RunInside(c)})

\* Lengths were measured on a mask holding two chords or more, one of them
\* longer than one voxel.
C3_Witness ==
    /\ pc = "lengths" /\ ChordsCalled
    /\ Len(lens) >= 2
    /\ \E i \in DOMAIN lens : lens[i] >= 2

\* C4: in a 3D grid the three sampling grids of apply_chords_3D are
\* pairwise disjoint, and every non-zero voxel of the result carries the
\* label 1, 2 or 3 of the one axis whose sampling line passes through it.
C4_DisjointGrids ==
    (fn = "apply_chords_3D" /\ Len(im.shape) = 3 /\ ~IsError(out)) =>
        LET stride == 4 + 2 * spacing
        IN  \A c \in Coords(im.shape) :
               /\ ~(InX(c, stride) /\ InY(c, stride))
               /\ ~(InX(c, stride) /\ InZ(c, stride))
               /\ ~(InY(c, stride) /\ InZ(c, stride))
               /\ out.val[c] \in 0..3
               /\ out.val[c] = 1 => InX(c, stride)
               /\ out.val[c] = 2 => InY(c, stride)
               /\ out.val[c] = 3 => InZ(c, stride)

\* apply_chords_3D returned an image of a 3D grid that holds all three labels.
C4_Witness ==
    /\ fn = "apply_chords_3D" /\ Len(im.shape) = 3 /\ ~IsError(out)
    /\ \A l \in 1..3 : \E c \in Coords(im.shape) : out.val[c] = l

\* C6: trimming a chord mask (or a labelled 3-axis chord image) that was
\* already trimmed returns the identical image.
C6_TrimIdempotent == ntrim = 2 => out = prev

\* A trimmed 3-axis image that still holds chords of two directions was
\* trimmed again.
C6_Witness ==
    /\ ntrim = 2 /\ fn = "apply_chords_3D"
    /\ \E c, d \in Support(prev) : prev.val[c] # prev.val[d]

\* A trimmed single-axis mask that still holds two chords was trimmed again.
TrimmedAgainSingleAxis ==
    /\ ntrim = 2 /\ fn = "apply_chords"
    /\ Len(LabelComps(Support(prev))) >= 2

\* C7 as stated: apply_chords fails whenever axis is outside [0, k),
\* every negative axis included.
C7_AxisOutsideRangeFails ==
    (fn = "apply_chords" /\ ~ValidAxis) => IsError(out)

\* C7 as amended: apply_chords fails whenever axis >= k or axis < -k; an
\* axis in [-k, -1] is accepted and gives what axis + k gives.
C7_AxisBeyondRankFails ==
    LET k == Len(im.shape)
    IN  /\ (fn = "apply_chords" /\ (axis >= k \/ axis < -k)) => IsError(out)
        /\ (fn = "apply_chords" /\ ntrim <= 1 /\ axis < 0 /\ axis >= -k) =>
              out = apply_chords(im, spacing, axis + k, trim_edges)

\* apply_chords was called with a valid spacing and the axis k, and raised.
C7_Witness ==
    /\ fn = "apply_chords" /\ spacing = 0 /\ axis = Len(im.shape)
    /\ IsError(out) /\ out.err = "IndexError"

\* C8: apply_chords_3D fails for every input whose number of dimensions is
\* not exactly 3, fewer than 3 and more than 3 alike.
C8_Not3DFails ==
    (fn = "apply_chords_3D" /\ Len(im.shape) # 3) => IsError(out)

(***************************************************************************)
(* The correlation estimator.                                              *)
(***************************************************************************)
CorrImages ==
    Images2D(<<6, 6>>) \cup Images2D(<<2, 2>>) \cup Images3D(<<4, 4, 4>>)
        \cup {ScenarioGrid}

\* The spacings tried: 0, the small positive ones and the default.
CorrSpacings == (0..MaxSpacing) \cup {DefaultSpacing}

InitCorr ==
    /\ im \in CorrImages
    /\ fn = "none" /\ spacing = 0 /\ axis = 0 /\ trim_edges = FALSE
    /\ pc = "start"
    /\ out = NoArray /\ prev = NoArray /\ ntrim = 0 /\ lens = <<>>

TwoPointCorrelation ==
    /\ pc = "start"
    /\ \E sp \in CorrSpacings :
          /\ spacing' = sp
          /\ out' \in two_point_correlation_bf(im, sp)
    /\ fn' = "two_point_correlation_bf"
    /\ pc' = "correlated"
    /\ UNCHANGED <<im, axis, trim_edges, prev, ntrim, lens>>

NextCorr == TwoPointCorrelation

SpecCorr == InitCorr /\ [][NextCorr]_vars

AllVoidImage == \A c \in Coords(im.shape) : im.val[c] > 0

\* C5: for an entirely void grid the both-void histogram equals the
\* first-point-void histogram in every bin, so the probability returned is
\* exactly 1 in every bin that holds a point pair (and every bin holds one).
C5_AllVoidRatioOne ==
    (pc = "correlated" /\ spacing > 0 /\ AllVoidImage) =>
        /\ ~IsError(out)
        /\ \A i \in DOMAIN out.y :
              /\ out.y[i].num = out.y[i].den
              /\ out.y[i].den > 0

\* The estimator returned two bins or more, each holding pairs, for an
\* entirely void grid.
C5_Witness ==
    /\ pc = "correlated" /\ ~IsError(out) /\ AllVoidImage
    /\ Len(out.y) >= 2
    /\ \A i \in DOMAIN out.y : out.y[i].den > 0

\* The grid is smaller than one stride in every dimension: one sample point.
OneSamplePoint == spacing > 0 /\ \A i \in DOMAIN im.shape : im.shape[i] <= spacing

\* C9: two_point_correlation_bf fails with an argument error, raised before
\* any sampling, whenever spacing <= 0 or the grid is smaller than one
\* stride in every dimension.
C9_BadArgumentsFail ==
    (pc = "correlated" /\ (spacing <= 0 \/ OneSamplePoint)) =>
        (IsError(out) /\ out.err = "ValueError")

====
